---- MODULE Spec2Model ----
(***************************************************************************)
(* Model of the tunnel registry and request/response correlation engine   *)
(* of tunnerse-api (internal/api/services/tunnel_service.go).              *)
(*                                                                         *)
(* Every HTTP handler (Register, Get, Response, Tunnel, Close) runs on a   *)
(* handler slot; every registered tunnel owns one supervisor goroutine.    *)
(* A step of the model is one critical section (registry lock or           *)
(* tunnel.mu), one channel operation, or one select of the source.         *)
(***************************************************************************)
EXTENDS Integers, FiniteSets, Sequences, TLC

(* ------------------------------ bounds -------------------------------- *)
MaxActive == 3
MaxActiveRegistry == 2
MaxCallsPerOp == 2
MaxTunnels == 2
MaxTokens == 2
NumCodes == 2
AttemptCap == 2
MaxPathLen == 6
INACTIVITY_TTL == 1
MAX_TTL == 2
TUNNEL_REQUEST_TIMEOUT == 1
ResponseSendTimeout == 5

\* A handler call is named by its operation and its rank among the calls of
\* that operation.
Ops == <<"Register", "Get", "Response", "Tunnel", "Close">>
Procs == 1..(Len(Ops) * MaxCallsPerOp)
OpOf(p) == Ops[((p - 1) \div MaxCallsPerOp) + 1]
Rank(p) == ((p - 1) % MaxCallsPerOp) + 1
RegisterProcs == {p \in Procs : OpOf(p) = "Register"}
GetProcs == {p \in Procs : OpOf(p) = "Get"}
ResponseProcs == {p \in Procs : OpOf(p) = "Response"}
TunnelProcs == {p \in Procs : OpOf(p) = "Tunnel"}
CloseProcs == {p \in Procs : OpOf(p) = "Close"}
TunnelIds == 1..MaxTunnels
Tokens == 1..MaxTokens
\* utils.RandomCode(3) draws one of NumCodes codes; the calls use one base, so a
\* tunnel name base-code is identified by its code.
RandomCodes == 1..NumCodes
Names == RandomCodes

\* The threads whose locking is followed: the first call of every operation
\* and the supervisor of the tunnel.
NoThread == -1
SupervisorThread == 0
Threads == {SupervisorThread} \cup {p \in Procs : Rank(p) = 1}

NoTunnel == 0
NoWriter == 0
NoToken == 0
NoChan == 0
TimerOff == -1
NoName == 0
NoResp == [Token |-> NoToken, Kind |-> ""]
NoReq == [Token |-> NoToken, Host |-> NoName, Path |-> <<>>]

\* The ResponseData an agent posts: its token ("" = NoToken) and what it holds:
\* a plain response with a base64 body, one with the header Tunnerse:
\* local-api-error, or one whose body is not valid base64.
Kinds == {"plain", "local-api-error", "bad-base64"}
ResponseDatas == [Token : Tokens \cup {NoToken}, Kind : Kinds]

ErrNotFound == "tunnel not found"
ErrClosed == "tunnel is closed"
ErrNilRequest == "nil request received"
ErrAgentGone == "client disconnected; tunnel has a 1-minute grace period"
ErrMissingToken == "missing Tunnerse-Request-Token in response"
ErrNoPending == "no pending request found for token"
ErrRespTimeout == "response channel timeout for token"
ErrTimeout == "timeout"
ErrClientGone == "client disconnected"
ErrReadBody == "failed to read request body"
ErrNilResponse == "received nil response"
ErrLocalApi == "local-api-error"
ErrBase64 == "failed to decode base64 body"
ErrWrite == "write error"
PanicSendClosed == "panic: send on closed channel"
ErrWriterTimeout == "writer channel timeout"
Ok == "nil"

(* ------------------------------ state --------------------------------- *)
VARIABLES
    tunnels,           \* s.tunnels: name -> tunnel (NoTunnel = absent)
    nextTunnel,        \* number of Tunnel objects allocated so far
    tunnelName,        \* the name captured by the tunnel's supervisor closure
    closed,            \* Tunnel.closed
    pendingRequests,   \* Tunnel.pendingRequests: token -> response channel
    requestChClosed,   \* close(t.requestCh) has run
    stopTimerClosed,   \* close(t.stopTimer) has run
    inactivityTimer,   \* remaining ticks; 0 = fired, value in C; TimerOff
    maxLifetimeTimer,  \* same for the max-lifetime timer
    supervisor,        \* position of the tunnel's supervisor goroutine
    responseCh,        \* per-request channels: buffer (cap 1) and closed flag
    nextToken,         \* number of tokens (and response channels) minted
    pc, loc, ret,      \* handler calls: position, locals, result
    w,                 \* what a Tunnel call wrote to its http.ResponseWriter
    timeAfter,         \* the time.After timer of the select a call is in
    maxActive,         \* how many handlers run at a time
    SUBDOMAIN,         \* config.AppConfig.SUBDOMAIN
    incoming,          \* the URL path of the requests the external clients send
    position,          \* lock discipline: per thread, the synchronisation operation it is at
    mux,               \* s.mux (sync.RWMutex): its writer and its readers
    mu,                \* t.mu (sync.Mutex) of the tunnel: its holder
    closers,           \* history: per tunnel, the Close calls whose lookup found it
    closeReturned,     \* history: a Close call that found the tunnel returned nil
    laterRegister,     \* history: the tunnels whose Close returned before a Register
                       \* call started that has returned since
    expired            \* history: the supervisor took the expiry of the inactivity timer
                       \* and has not yet removed the tunnel from the registry

regVars == <<tunnels, nextTunnel, tunnelName>>
tunVars == <<closed, pendingRequests, requestChClosed, stopTimerClosed>>
timerVars == <<inactivityTimer, maxLifetimeTimer>>
chanVars == <<responseCh, nextToken>>
procVars == <<pc, loc, ret, w, timeAfter>>
lockVars == <<position, mux, mu>>
confVars == <<maxActive, SUBDOMAIN, incoming, lockVars>>
histVars == <<confVars, closers, closeReturned, laterRegister, expired>>
vars == <<tunnels, nextTunnel, tunnelName, closed, pendingRequests, requestChClosed,
          stopTimerClosed, inactivityTimer, maxLifetimeTimer, supervisor, responseCh,
          nextToken, pc, loc, ret, w, timeAfter, maxActive, SUBDOMAIN, incoming, position, mux,
          mu, closers, closeReturned, laterRegister, expired>>

\* The locals of a call; path is r.URL.Path, wr the writer a Response of the
\* single-channel variant received.  The nine before it are history: the tunnels whose Close had
\* returned when a Register call started; whether, when a call looked its name
\* up, a Close had removed the last tunnel registered under the name, a Close
\* of the name had returned, and a Close of the name and then a Register call
\* had returned; whether the tunnel was closed when a Tunnel call left its
\* select; the name the response a Tunnel call received was posted to; the
\* draws a Register call has made in its minting loop (up to AttemptCap + 1);
\* the Tunnel calls that were in their send select on the same channel when a
\* Tunnel call entered its own, and those of them that were still there when
\* its request was received.
NoLoc == [name |-> NoName, tunnel |-> NoTunnel, token |-> NoToken, responseCh |-> NoChan,
          resp |-> NoResp, req |-> NoReq, alreadyClosed |-> FALSE,
          since |-> {}, removed |-> FALSE, afterClose |-> FALSE, afterRegister |-> FALSE,
          terminated |-> FALSE, via |-> NoName, attempts |-> 0,
          ahead |-> {}, overtook |-> {}, path |-> <<>>, wr |-> NoWriter]

\* A response channel: its buffer (capacity 1) and closed flag; as history, the
\* name the buffered response was posted to and the sends and closes so far.
EmptyChan == [buf |-> NoResp, full |-> FALSE, closed |-> FALSE, via |-> NoName,
              sends |-> 0, closes |-> 0]

\* The state after NewTunnelService(); quota[o] calls of operation o will be
\* made, in mode subdomain, by clients that request a path of paths.
InitOf(quota, active, subdomain, paths) ==
    /\ SUBDOMAIN \in subdomain
    /\ incoming \in paths
    /\ position = [th \in Threads |-> 0]
    /\ mux = [w |-> NoThread, r |-> {}]
    /\ mu = NoThread
    /\ tunnels = [n \in Names |-> NoTunnel]
    /\ nextTunnel = 0
    /\ tunnelName = [t \in TunnelIds |-> NoName]
    /\ closed = [t \in TunnelIds |-> FALSE]
    /\ pendingRequests = [t \in TunnelIds |-> [k \in Tokens |-> NoChan]]
    /\ requestChClosed = [t \in TunnelIds |-> FALSE]
    /\ stopTimerClosed = [t \in TunnelIds |-> FALSE]
    /\ inactivityTimer = [t \in TunnelIds |-> TimerOff]
    /\ maxLifetimeTimer = [t \in TunnelIds |-> TimerOff]
    /\ supervisor = [t \in TunnelIds |-> "none"]
    /\ responseCh = [c \in Tokens |-> EmptyChan]
    /\ nextToken = 0
    /\ pc = [p \in Procs |-> IF Rank(p) <= quota[OpOf(p)] THEN "idle" ELSE "gone"]
    /\ loc = [p \in Procs |-> NoLoc]
    /\ ret = [p \in Procs |-> ""]
    /\ w = [p \in Procs |-> NoResp]
    /\ timeAfter = [p \in Procs |-> TimerOff]
    /\ maxActive = active
    /\ closers = [t \in TunnelIds |-> 0]
    /\ closeReturned = [t \in TunnelIds |-> FALSE]
    /\ laterRegister = {}
    /\ expired = [t \in TunnelIds |-> FALSE]

\* Path-prefix mode; every client requests /a/a.
InitWith(quota, active) == InitOf(quota, active, {FALSE}, {<<"/", "a", "/", "a">>})

(* --------------------------- handler calls ---------------------------- *)
\* A returned call is over before anything else happens: no call is at "done".
Quiet == \A p \in Procs : pc[p] # "done"

Active == {p \in Procs : pc[p] \notin {"idle", "gone"}}

\* The next call of operation o starts (calls of one operation are
\* interchangeable: the lowest rank starts first); at most MaxActive handlers
\* run at a time.
CanStart(p, o) ==
    /\ pc[p] = "idle"
    /\ OpOf(p) = o
    /\ Quiet
    /\ \A q \in Procs : (OpOf(q) = o /\ q < p) => pc[q] # "idle"
    /\ Cardinality(Active) < maxActive

\* A call starts: its first step is taken together with its start, and it is at
\* position first afterwards ("done" with result r when it returned at once).
Begin(p, o, first, l, r) ==
    /\ CanStart(p, o)
    /\ pc' = [pc EXCEPT ![p] = first]
    /\ loc' = [loc EXCEPT ![p] = l]
    /\ ret' = [ret EXCEPT ![p] = r]
    /\ UNCHANGED <<w, timeAfter>>

Goto(p, next) == pc' = [pc EXCEPT ![p] = next]

Return(p, r) ==
    /\ pc' = [pc EXCEPT ![p] = "done"]
    /\ ret' = [ret EXCEPT ![p] = r]

At(p, o, where) == pc[p] = where /\ OpOf(p) = o /\ Quiet

\* The handler has returned: its caller takes the result and the call is over.
Exit(p) ==
    /\ pc[p] = "done"
    /\ pc' = [pc EXCEPT ![p] = "gone"]
    /\ loc' = [loc EXCEPT ![p] = NoLoc]
    /\ ret' = [ret EXCEPT ![p] = ""]
    /\ w' = [w EXCEPT ![p] = NoResp]
    /\ timeAfter' = [timeAfter EXCEPT ![p] = TimerOff]
    /\ UNCHANGED <<histVars, regVars, tunVars, timerVars, chanVars, supervisor>>


(* ------------------------------ Register ------------------------------ *)
\* The minting loop: draw a code, look the candidate up under RLock, leave the
\* loop when the candidate is absent.  A draw that exists loops without effect.
\* Codes no Register has drawn yet are interchangeable: the lowest is drawn first.
Inserting == {q \in Procs : OpOf(q) = "Register" /\ pc[q] = "insert"}
Drawn == {tunnelName[t] : t \in 1..nextTunnel} \cup {loc[q].name : q \in Inserting}
Fresh == RandomCodes \ Drawn
Draws == Drawn \cup {c \in Fresh : \A d \in Fresh : c <= d}

RegisterMint(p) ==
    /\ CanStart(p, "Register")
    /\ \E random \in Draws :
        /\ tunnels[random] = NoTunnel
        /\ nextTunnel + Cardinality(Inserting) < MaxTunnels
        /\ Begin(p, "Register", "insert",
                 [NoLoc EXCEPT !.name = random,
                               !.since = {t \in 1..nextTunnel : closeReturned[t]}], "")
        /\ UNCHANGED <<histVars, regVars, tunVars, timerVars, chanVars, supervisor>>

\* The minting loop, iteration by iteration.  A Register call starts: the
\* name passed the validator and the loop is entered.
Looping == {q \in Procs : OpOf(q) = "Register" /\ pc[q] = "mint"}

RegisterValidate(p) ==
    /\ CanStart(p, "Register")
    /\ nextTunnel + Cardinality(Inserting) + Cardinality(Looping) < MaxTunnels
    /\ Begin(p, "Register", "mint",
             [NoLoc EXCEPT !.since = {t \in 1..nextTunnel : closeReturned[t]}], "")
    /\ UNCHANGED <<histVars, regVars, tunVars, timerVars, chanVars, supervisor>>

\* One iteration: random := utils.RandomCode(3); under RLock, the lookup of the
\* candidate; break when it is absent, draw again when it is present.  No
\* iteration is the last one: the loop has no counter.
RegisterDraw(p) ==
    /\ At(p, "Register", "mint")
    /\ \E random \in Draws :
        /\ loc' = [loc EXCEPT ![p].attempts = IF @ <= AttemptCap THEN @ + 1 ELSE @,
                              ![p].name = IF tunnels[random] = NoTunnel THEN random ELSE @]
        /\ pc' = [pc EXCEPT ![p] = IF tunnels[random] = NoTunnel THEN "insert" ELSE "mint"]
    /\ UNCHANGED <<histVars, regVars, tunVars, timerVars, chanVars, supervisor, ret, w, timeAfter>>

\* t := &Tunnel{...}; both timers armed; s.tunnels[tunnelName] = t under Lock;
\* the supervisor goroutine is started.
RegisterInsert(p) ==
    /\ At(p, "Register", "insert")
    /\ LET t == nextTunnel + 1 IN
        /\ nextTunnel' = t
        /\ tunnels' = [tunnels EXCEPT ![loc[p].name] = t]
        /\ tunnelName' = [tunnelName EXCEPT ![t] = loc[p].name]
        /\ inactivityTimer' = [inactivityTimer EXCEPT ![t] = INACTIVITY_TTL]
        /\ maxLifetimeTimer' = [maxLifetimeTimer EXCEPT ![t] = MAX_TTL]
        /\ supervisor' = [supervisor EXCEPT ![t] = "spawned"]
        /\ loc' = [loc EXCEPT ![p].tunnel = t]
    /\ Return(p, Ok)
    /\ laterRegister' = laterRegister \cup loc[p].since
    /\ UNCHANGED <<expired, confVars, closers, closeReturned, tunVars, chanVars, w, timeAfter>>

(* ----------------------------- supervisor ----------------------------- *)
\* Timer.Stop(): a running timer is stopped; a fired one keeps its value in C.
Stop(v) == IF v > 0 THEN TimerOff ELSE v

Sup(t, where) == supervisor[t] = where /\ Quiet

\* The goroutine reaches its select and parks on the three channels.
SupervisorPark(t) ==
    /\ Sup(t, "spawned")
    /\ supervisor' = [supervisor EXCEPT ![t] = "select"]
    /\ UNCHANGED <<histVars, regVars, tunVars, timerVars, chanVars, procVars>>

\* case <-inactivityTimer.C, then the deferred Stop() of both timers.
SupervisorInactivity(t) ==
    /\ Sup(t, "select")
    /\ inactivityTimer[t] = 0
    /\ inactivityTimer' = [inactivityTimer EXCEPT ![t] = TimerOff]
    /\ maxLifetimeTimer' = [maxLifetimeTimer EXCEPT ![t] = Stop(@)]
    /\ supervisor' = [supervisor EXCEPT ![t] = "mark"]
    /\ expired' = [expired EXCEPT ![t] = TRUE]
    /\ UNCHANGED <<confVars, closers, closeReturned, laterRegister, regVars, tunVars, chanVars,
                   procVars>>

\* case <-maxLifetimeTimer.C, then the deferred Stop() of both timers.
SupervisorMaxLifetime(t) ==
    /\ Sup(t, "select")
    /\ maxLifetimeTimer[t] = 0
    /\ maxLifetimeTimer' = [maxLifetimeTimer EXCEPT ![t] = TimerOff]
    /\ inactivityTimer' = [inactivityTimer EXCEPT ![t] = Stop(@)]
    /\ supervisor' = [supervisor EXCEPT ![t] = "mark"]
    /\ UNCHANGED <<histVars, regVars, tunVars, chanVars, procVars>>

\* case <-t.stopTimer was taken, then the deferred Stop() of both timers.
SupervisorStopped(t) ==
    /\ Sup(t, "stopped")
    /\ inactivityTimer' = [inactivityTimer EXCEPT ![t] = Stop(@)]
    /\ maxLifetimeTimer' = [maxLifetimeTimer EXCEPT ![t] = Stop(@)]
    /\ supervisor' = [supervisor EXCEPT ![t] = "mark"]
    /\ UNCHANGED <<histVars, regVars, tunVars, chanVars, procVars>>

\* close(ch) of a response channel.
CloseChan(ch) == [ch EXCEPT !.closed = TRUE, !.closes = @ + 1]

\* A teardown that sets closed and leaves the pending map as it is.
SupervisorMarkNoDrain(t) ==
    /\ Sup(t, "mark")
    /\ closed' = [closed EXCEPT ![t] = TRUE]
    /\ supervisor' = [supervisor EXCEPT ![t] = "unregister"]
    /\ UNCHANGED <<histVars, regVars, pendingRequests, requestChClosed, stopTimerClosed, timerVars,
                   chanVars, procVars>>

\* Under t.mu: closed = true; every pending response channel is closed and its
\* token deleted from pendingRequests.
SupervisorMark(t) ==
    /\ Sup(t, "mark")
    /\ closed' = [closed EXCEPT ![t] = TRUE]
    /\ LET drained == {pendingRequests[t][k] : k \in Tokens} \ {NoChan} IN
        responseCh' = [c \in Tokens |->
                        IF c \in drained THEN CloseChan(responseCh[c]) ELSE responseCh[c]]
    /\ pendingRequests' = [pendingRequests EXCEPT ![t] = [k \in Tokens |-> NoChan]]
    /\ supervisor' = [supervisor EXCEPT ![t] = "unregister"]
    /\ UNCHANGED <<histVars, regVars, requestChClosed, stopTimerClosed, timerVars, nextToken, procVars>>

\* Under s.mux: delete(s.tunnels, tunnelName), by name.
SupervisorUnregister(t) ==
    /\ Sup(t, "unregister")
    /\ tunnels' = [tunnels EXCEPT ![tunnelName[t]] = NoTunnel]
    /\ supervisor' = [supervisor EXCEPT ![t] = "closeRequestCh"]
    /\ expired' = [expired EXCEPT ![t] = FALSE]
    /\ UNCHANGED <<confVars, closers, closeReturned, laterRegister, nextTunnel, tunnelName,
                   tunVars, timerVars, chanVars, procVars>>

\* A teardown that leaves requestCh open.
SupervisorLeaveRequestCh(t) ==
    /\ Sup(t, "closeRequestCh")
    /\ supervisor' = [supervisor EXCEPT ![t] = "closeStopTimer"]
    /\ UNCHANGED <<histVars, regVars, tunVars, timerVars, chanVars, procVars>>

\* close(t.requestCh); close(t.writerCh)
SupervisorCloseRequestCh(t) ==
    /\ Sup(t, "closeRequestCh")
    /\ requestChClosed' = [requestChClosed EXCEPT ![t] = TRUE]
    /\ supervisor' = [supervisor EXCEPT ![t] = "closeStopTimer"]
    /\ UNCHANGED <<histVars, regVars, closed, pendingRequests, stopTimerClosed, timerVars, chanVars,
                   procVars>>

\* close(t.stopTimer); the goroutine ends.
SupervisorCloseStopTimer(t) ==
    /\ Sup(t, "closeStopTimer")
    /\ stopTimerClosed' = [stopTimerClosed EXCEPT ![t] = TRUE]
    /\ supervisor' = [supervisor EXCEPT ![t] = "exited"]
    /\ UNCHANGED <<histVars, regVars, closed, pendingRequests, requestChClosed, timerVars, chanVars,
                   procVars>>

(* ------------------------------- inputs ------------------------------- *)
\* Callers use the names that Register has handed out.
KnownNames == {tunnelName[t] : t \in 1..nextTunnel}

\* The tunnels registered under a name so far, and the last of them.
Registered(name) == {t \in 1..nextTunnel : tunnelName[t] = name}
LastTunnel(name) == CHOOSE t \in Registered(name) : \A u \in Registered(name) : u <= t

\* The locals of a call on a name when it starts.
Args(name) ==
    [NoLoc EXCEPT !.name = name,
                  !.removed = closers[LastTunnel(name)] > 0,
                  !.afterClose = \E t \in Registered(name) : closeReturned[t],
                  !.afterRegister = \E t \in Registered(name) : t \in laterRegister]

\* An agent posts any kind of ResponseData with a token it chooses: none, a
\* minted one, or one that was never minted (the lowest stands for them all).
PostedDatas ==
    {r \in ResponseDatas :
        /\ r.Token <= nextToken + 1
        /\ r.Token = NoToken => r.Kind = "plain"}

(* -------------------------------- Close ------------------------------- *)
\* The lookup of Close without delete(s.tunnels, name).
CloseLookupNoDelete(p) ==
    /\ CanStart(p, "Close")
    /\ \E name \in KnownNames :
        /\ IF tunnels[name] = NoTunnel
           THEN /\ Begin(p, "Close", "done", Args(name), ErrNotFound)
                /\ UNCHANGED <<tunnels, closers>>
           ELSE /\ Begin(p, "Close", "mark", [Args(name) EXCEPT !.tunnel = tunnels[name]], "")
                /\ tunnels' = tunnels
                /\ closers' = [closers EXCEPT ![tunnels[name]] = @ + 1]
        /\ UNCHANGED <<expired, confVars, closeReturned, laterRegister, nextTunnel, tunnelName,
                       tunVars, timerVars, chanVars, supervisor>>

\* Under s.mux.Lock: look the tunnel up and delete it from the registry.
CloseLookup(p) ==
    /\ CanStart(p, "Close")
    /\ \E name \in KnownNames :
        /\ IF tunnels[name] = NoTunnel
           THEN /\ Begin(p, "Close", "done", Args(name), ErrNotFound)
                /\ UNCHANGED <<tunnels, closers>>
           ELSE /\ Begin(p, "Close", "mark", [Args(name) EXCEPT !.tunnel = tunnels[name]], "")
                /\ tunnels' = [tunnels EXCEPT ![name] = NoTunnel]
                /\ closers' = [closers EXCEPT ![tunnels[name]] = @ + 1]
        /\ UNCHANGED <<expired, confVars, closeReturned, laterRegister, nextTunnel, tunnelName,
                       tunVars, timerVars, chanVars, supervisor>>

\* Close without the early return on alreadyClosed.
CloseMarkAlways(p) ==
    /\ At(p, "Close", "mark")
    /\ closed' = [closed EXCEPT ![loc[p].tunnel] = TRUE]
    /\ Goto(p, "signal")
    /\ loc' = [loc EXCEPT ![p].alreadyClosed = closed[loc[p].tunnel]]
    /\ UNCHANGED <<ret, closeReturned>>
    /\ UNCHANGED <<expired, confVars, closers, laterRegister, regVars, pendingRequests,
                   requestChClosed, stopTimerClosed, timerVars, chanVars, supervisor, w,
                   timeAfter>>

\* Under tunnel.mu: alreadyClosed := tunnel.closed; tunnel.closed = true; the
\* return on alreadyClosed.
CloseMark(p) ==
    /\ At(p, "Close", "mark")
    /\ closed' = [closed EXCEPT ![loc[p].tunnel] = TRUE]
    /\ IF closed[loc[p].tunnel]
       THEN /\ Return(p, Ok)
            /\ loc' = [loc EXCEPT ![p].alreadyClosed = TRUE]
            /\ closeReturned' = [closeReturned EXCEPT ![loc[p].tunnel] = TRUE]
       ELSE /\ Goto(p, "signal")
            /\ UNCHANGED <<ret, loc, closeReturned>>
    /\ UNCHANGED <<expired, confVars, closers, laterRegister, regVars, pendingRequests,
                   requestChClosed, stopTimerClosed, timerVars, chanVars, supervisor, w,
                   timeAfter>>

\* select { case tunnel.stopTimer <- struct{}{}: default: }.  The send is taken
\* only when the supervisor is parked in its select; a send on the closed
\* channel panics.
CloseSignal(p) ==
    /\ At(p, "Close", "signal")
    /\ LET t == loc[p].tunnel IN
        IF stopTimerClosed[t]
        THEN /\ Return(p, PanicSendClosed)
             /\ UNCHANGED <<supervisor, closeReturned>>
        ELSE /\ Return(p, Ok)
             /\ closeReturned' = [closeReturned EXCEPT ![t] = TRUE]
             /\ supervisor' = [supervisor EXCEPT ![t] =
                                 IF @ = "select" THEN "stopped" ELSE @]
    /\ UNCHANGED <<expired, confVars, closers, laterRegister, regVars, tunVars, timerVars, chanVars,
                   loc, w, timeAfter>>

(* -------------------------------- time -------------------------------- *)
Dec(v) == IF v > 0 THEN v - 1 ELSE v

\* One unit of time passes: every running timer is one unit closer to firing.
Tick ==
    /\ Quiet
    /\ \/ \E t \in TunnelIds : inactivityTimer[t] > 0 \/ maxLifetimeTimer[t] > 0
       \/ \E p \in Procs : timeAfter[p] > 0
    /\ inactivityTimer' = [t \in TunnelIds |-> Dec(inactivityTimer[t])]
    /\ maxLifetimeTimer' = [t \in TunnelIds |-> Dec(maxLifetimeTimer[t])]
    /\ timeAfter' = [p \in Procs |-> Dec(timeAfter[p])]
    /\ UNCHANGED <<histVars, regVars, tunVars, chanVars, supervisor, pc, loc, ret, w>>

(* --------------------------------- Get -------------------------------- *)
\* A resetTimer that stops the timer and does not Reset it.
resetTimerStop(t) ==
    /\ inactivityTimer' = [inactivityTimer EXCEPT ![t] = Stop(@)]
    /\ UNCHANGED maxLifetimeTimer

\* A resetTimer that resets the lifetime timer as well.
resetTimerBoth(t) ==
    /\ inactivityTimer' = [inactivityTimer EXCEPT ![t] = INACTIVITY_TTL]
    /\ maxLifetimeTimer' = [maxLifetimeTimer EXCEPT ![t] = MAX_TTL]

\* t.resetTimer: Stop, drain, Reset(inactivityDuration).
resetTimer(t) ==
    /\ inactivityTimer' = [inactivityTimer EXCEPT ![t] = INACTIVITY_TTL]
    /\ UNCHANGED maxLifetimeTimer

\* Under s.mux.RLock: look the tunnel up.
GetLookup(p) ==
    /\ CanStart(p, "Get")
    /\ \E name \in KnownNames :
        /\ IF tunnels[name] = NoTunnel
           THEN Begin(p, "Get", "done", Args(name), ErrNotFound)
           ELSE Begin(p, "Get", "entry", [Args(name) EXCEPT !.tunnel = tunnels[name]], "")
        /\ UNCHANGED <<histVars, regVars, tunVars, timerVars, chanVars, supervisor>>

\* Under tunnel.mu: closed check, then resetTimer.
GetEntry(p) ==
    /\ At(p, "Get", "entry")
    /\ IF closed[loc[p].tunnel]
       THEN /\ Return(p, ErrClosed)
            /\ UNCHANGED timerVars
       ELSE /\ Goto(p, "recv")
            /\ resetTimer(loc[p].tunnel)
            /\ UNCHANGED ret
    /\ UNCHANGED <<histVars, regVars, tunVars, chanVars, supervisor, loc, w, timeAfter>>

\* case req = <-tunnel.requestCh on the closed channel: req == nil.
GetRecvClosed(p) ==
    /\ At(p, "Get", "recv")
    /\ requestChClosed[loc[p].tunnel]
    /\ Return(p, ErrNilRequest)
    /\ UNCHANGED <<histVars, regVars, tunVars, timerVars, chanVars, supervisor, loc, w, timeAfter>>

\* case <-r.Context().Done(): the agent went away.
GetCancel(p) ==
    /\ At(p, "Get", "recv")
    /\ Return(p, ErrAgentGone)
    /\ UNCHANGED <<histVars, regVars, tunVars, timerVars, chanVars, supervisor, loc, w, timeAfter>>

(* ------------------------------- Tunnel ------------------------------- *)
\* The Tunnel calls that will still mint a token.
Minting == {q \in Procs : OpOf(q) = "Tunnel" /\ pc[q] \in {"entry", "insert"}}

\* Under s.mux.RLock: look the tunnel up.
TunnelLookup(p) ==
    /\ CanStart(p, "Tunnel")
    /\ \E name \in KnownNames :
        /\ nextToken + Cardinality(Minting) < MaxTokens
        /\ IF tunnels[name] = NoTunnel
           THEN Begin(p, "Tunnel", "done", [Args(name) EXCEPT !.path = incoming], ErrNotFound)
           ELSE Begin(p, "Tunnel", "entry",
                      [Args(name) EXCEPT !.tunnel = tunnels[name], !.path = incoming], "")
        /\ UNCHANGED <<histVars, regVars, tunVars, timerVars, chanVars, supervisor>>

\* Under tunnel.mu: closed check, then resetTimer.
TunnelEntry(p) ==
    /\ At(p, "Tunnel", "entry")
    /\ IF closed[loc[p].tunnel]
       THEN /\ Return(p, ErrClosed)
            /\ UNCHANGED timerVars
       ELSE /\ Goto(p, "insert")
            /\ resetTimer(loc[p].tunnel)
            /\ UNCHANGED ret
    /\ UNCHANGED <<histVars, regVars, tunVars, chanVars, supervisor, loc, w, timeAfter>>

\* A Tunnel call that mints its token and does not insert the slot.
TunnelInsertSkip(p) ==
    /\ At(p, "Tunnel", "insert")
    /\ nextToken' = nextToken + 1
    /\ loc' = [loc EXCEPT ![p].token = nextToken + 1, ![p].responseCh = nextToken + 1]
    /\ IF closed[loc[p].tunnel]
       THEN Return(p, ErrClosed)
       ELSE Goto(p, "check") /\ UNCHANGED ret
    /\ UNCHANGED <<histVars, regVars, tunVars, timerVars, responseCh, supervisor, w, timeAfter>>

\* token := uuid.New(); responseCh := make(chan, 1); under tunnel.mu: closed
\* check, then pendingRequests[token] = responseCh.  The cleanup is deferred
\* only after the insertion.
TunnelInsert(p) ==
    /\ At(p, "Tunnel", "insert")
    /\ LET t == loc[p].tunnel
           token == nextToken + 1 IN
        /\ nextToken' = token
        /\ loc' = [loc EXCEPT ![p].token = token, ![p].responseCh = token]
        /\ IF closed[t]
           THEN /\ Return(p, ErrClosed)
                /\ UNCHANGED pendingRequests
           ELSE /\ Goto(p, "check")
                /\ pendingRequests' = [pendingRequests EXCEPT ![t][token] = token]
                /\ UNCHANGED ret
    /\ UNCHANGED <<histVars, regVars, closed, requestChClosed, stopTimerClosed, timerVars, responseCh,
                   supervisor, w, timeAfter>>

\* A return after the insertion: the result is set, the deferred cleanup is next.
Unwind(p, r) ==
    /\ pc' = [pc EXCEPT ![p] = "cleanup"]
    /\ ret' = [ret EXCEPT ![p] = r]
    /\ timeAfter' = [timeAfter EXCEPT ![p] = TimerOff]

\* The Tunnel calls in their send select on the request channel of tunnel t.
Sending(t) == {q \in Procs : OpOf(q) = "Tunnel" /\ pc[q] = "send" /\ loc[q].tunnel = t}

\* io.ReadAll(r.Body) may fail.  The request is cloned and given the token
\* header; under tunnel.mu: closed check, requestCh := tunnel.requestCh; the send select is entered with
\* time.After(timeout).
TunnelCheck(p) ==
    /\ At(p, "Tunnel", "check")
    /\ \/ Unwind(p, ErrReadBody)
       \/ IF closed[loc[p].tunnel]
          THEN Unwind(p, ErrClosed)
          ELSE /\ Goto(p, "send")
               /\ timeAfter' = [timeAfter EXCEPT ![p] = TUNNEL_REQUEST_TIMEOUT]
               /\ UNCHANGED ret
    /\ loc' = [loc EXCEPT ![p].ahead = IF pc'[p] = "send" THEN Sending(loc[p].tunnel) ELSE {}]
    /\ UNCHANGED <<histVars, regVars, tunVars, timerVars, chanVars, supervisor, w>>

\* One request channel shared by all tunnels.
requestChShared(t) == 0

\* requestCh: make(chan *http.Request): every tunnel has a channel of its own.
requestChOf(t) == t

\* A path is a sequence of characters.  The index of the first "/" of s, or 0.
IndexSlash(s) ==
    IF \E i \in 1..Len(s) : s[i] = "/"
    THEN CHOOSE i \in 1..Len(s) : s[i] = "/" /\ \A j \in 1..(i - 1) : s[j] # "/"
    ELSE 0

\* strings.SplitN(s, "/", n) for n > 0: at most n parts, the last of them the
\* unsplit remainder.
RECURSIVE SplitN(_, _)
SplitN(s, n) ==
    IF n = 1 \/ IndexSlash(s) = 0
    THEN <<s>>
    ELSE <<SubSeq(s, 1, IndexSlash(s) - 1)>> \o SplitN(SubSeq(s, IndexSlash(s) + 1, Len(s)), n - 1)

\* A rewrite that splits at every slash and keeps the third part.
rewritePathSplit(path, subdomain) ==
    IF ~subdomain
    THEN LET parts == SplitN(path, Len(path) + 1) IN
         IF Len(parts) >= 3 THEN <<"/">> \o parts[3] ELSE <<"/">>
    ELSE path

\* The path of the clone: without SUBDOMAIN, "/" + parts[2] of
\* strings.SplitN(URL.Path, "/", 3) when there are three parts, and "/"
\* otherwise; with SUBDOMAIN, the path the controller passed (r.URL.Path).
rewritePath(path, subdomain) ==
    IF ~subdomain
    THEN LET parts == SplitN(path, 3) IN
         IF Len(parts) >= 3 THEN <<"/">> \o parts[3] ELSE <<"/">>
    ELSE path

\* The clone of the request that is sent to the agent.
clonedRequest(p) ==
    [Token |-> loc[p].token, Host |-> loc[p].name, Path |-> rewritePath(loc[p].path, SUBDOMAIN)]

\* A receive that leaves the request with its sender.
DeliverCopy(p, g) ==
    /\ At(p, "Tunnel", "send")
    /\ At(g, "Get", "recv")
    /\ requestChOf(loc[g].tunnel) = requestChOf(loc[p].tunnel)
    /\ ~requestChClosed[loc[p].tunnel]
    /\ pc' = [pc EXCEPT ![g] = "done"]
    /\ ret' = [ret EXCEPT ![g] = Ok]
    /\ loc' = [loc EXCEPT ![g].req = clonedRequest(p), ![g].token = loc[p].token]
    /\ UNCHANGED <<histVars, regVars, tunVars, timerVars, chanVars, supervisor, w, timeAfter>>

\* case requestCh <- clonedRequest meets case req = <-tunnel.requestCh of a Get
\* on the same (unbuffered, open) channel.  The Get serializes the request and
\* returns it; the Tunnel call enters its second select with a new time.After.
Deliver(p, g) ==
    /\ At(p, "Tunnel", "send")
    /\ At(g, "Get", "recv")
    /\ requestChOf(loc[g].tunnel) = requestChOf(loc[p].tunnel)
    /\ ~requestChClosed[loc[p].tunnel]
    /\ pc' = [pc EXCEPT ![p] = "await", ![g] = "done"]
    /\ ret' = [ret EXCEPT ![g] = Ok]
    /\ loc' = [loc EXCEPT ![g].req = clonedRequest(p), ![g].token = loc[p].token,
                          ![p].overtook = {q \in loc[p].ahead : pc[q] = "send"}]
    /\ timeAfter' = [timeAfter EXCEPT ![p] = TUNNEL_REQUEST_TIMEOUT]
    /\ UNCHANGED <<histVars, regVars, tunVars, timerVars, chanVars, supervisor, w>>

\* The other outcomes of the send select: time.After fired, the client's
\* context is done, or the channel was closed under the sender (panic).
TunnelSendFail(p) ==
    /\ At(p, "Tunnel", "send")
    /\ \E r \in {ErrTimeout, ErrClientGone, PanicSendClosed} :
        /\ r = ErrTimeout => timeAfter[p] = 0
        /\ r = PanicSendClosed => requestChClosed[loc[p].tunnel]
        /\ Unwind(p, r)
    /\ loc' = [loc EXCEPT ![p].terminated = closed[loc[p].tunnel]]
    /\ UNCHANGED <<histVars, regVars, tunVars, timerVars, chanVars, supervisor, w>>

\* A receive that writes what it received before it looks at it.
TunnelRecvWriteFirst(p) ==
    /\ At(p, "Tunnel", "await")
    /\ LET c == loc[p].responseCh
           ch == responseCh[c] IN
        /\ ch.full \/ ch.closed
        /\ responseCh' = [responseCh EXCEPT ![c].full = FALSE, ![c].buf = NoResp,
                                            ![c].via = NoName]
        /\ loc' = [loc EXCEPT ![p].resp = ch.buf, ![p].via = ch.via,
                              ![p].terminated = closed[loc[p].tunnel]]
        /\ w' = [w EXCEPT ![p] = ch.buf]
        /\ IF ~ch.full
           THEN Unwind(p, ErrNilResponse)
           ELSE IF ch.buf.Kind = "local-api-error"
           THEN Unwind(p, ErrLocalApi)
           ELSE IF ch.buf.Kind = "bad-base64"
           THEN Unwind(p, ErrBase64)
           ELSE \E r \in {Ok, ErrWrite} : Unwind(p, r)
    /\ UNCHANGED <<histVars, regVars, tunVars, timerVars, nextToken, supervisor>>

\* case respData := <-responseCh: a buffered value, or nil from the closed
\* channel; then the local-api-error header, the base64 body, and the writes.
TunnelRecv(p) ==
    /\ At(p, "Tunnel", "await")
    /\ LET c == loc[p].responseCh
           ch == responseCh[c] IN
        /\ ch.full \/ ch.closed
        /\ responseCh' = [responseCh EXCEPT ![c].full = FALSE, ![c].buf = NoResp,
                                            ![c].via = NoName]
        /\ loc' = [loc EXCEPT ![p].resp = ch.buf, ![p].via = ch.via,
                              ![p].terminated = closed[loc[p].tunnel]]
        /\ IF ~ch.full
           THEN Unwind(p, ErrNilResponse) /\ UNCHANGED w
           ELSE IF ch.buf.Kind = "local-api-error"
           THEN Unwind(p, ErrLocalApi) /\ UNCHANGED w
           ELSE IF ch.buf.Kind = "bad-base64"
           THEN Unwind(p, ErrBase64) /\ UNCHANGED w
           ELSE /\ w' = [w EXCEPT ![p] = ch.buf]
                /\ \E r \in {Ok, ErrWrite} : Unwind(p, r)
    /\ UNCHANGED <<histVars, regVars, tunVars, timerVars, nextToken, supervisor>>

\* The other outcomes of the response select.
TunnelAwaitFail(p) ==
    /\ At(p, "Tunnel", "await")
    /\ \E r \in {ErrTimeout, ErrClientGone} :
        /\ r = ErrTimeout => timeAfter[p] = 0
        /\ Unwind(p, r)
    /\ loc' = [loc EXCEPT ![p].terminated = closed[loc[p].tunnel]]
    /\ UNCHANGED <<histVars, regVars, tunVars, timerVars, chanVars, supervisor, w>>

\* A return of Tunnel without the deferred delete.
TunnelCleanupNoDelete(p) ==
    /\ At(p, "Tunnel", "cleanup")
    /\ pendingRequests' = pendingRequests
    /\ Goto(p, "done")
    /\ UNCHANGED <<histVars, regVars, closed, requestChClosed, stopTimerClosed, timerVars, chanVars,
                   supervisor, loc, ret, w, timeAfter>>

\* The deferred cleanup, under tunnel.mu: delete(pendingRequests, token).
TunnelCleanup(p) ==
    /\ At(p, "Tunnel", "cleanup")
    /\ pendingRequests' = [pendingRequests EXCEPT ![loc[p].tunnel][loc[p].token] = NoChan]
    /\ Goto(p, "done")
    /\ UNCHANGED <<histVars, regVars, closed, requestChClosed, stopTimerClosed, timerVars, chanVars,
                   supervisor, loc, ret, w, timeAfter>>

(* ------------------------------ Response ------------------------------ *)
\* Under s.mux.RLock: look the tunnel up; then the body is decoded.
ResponseLookup(p) ==
    /\ CanStart(p, "Response")
    /\ \E name \in KnownNames, resp \in PostedDatas :
        /\ IF tunnels[name] = NoTunnel
           THEN Begin(p, "Response", "done", [Args(name) EXCEPT !.resp = resp], ErrNotFound)
           ELSE Begin(p, "Response", "match",
                      [Args(name) EXCEPT !.resp = resp, !.tunnel = tunnels[name]], "")
        /\ UNCHANGED <<histVars, regVars, tunVars, timerVars, chanVars, supervisor>>

\* A lookup that takes the oldest pending channel, whatever the token.
responseChAny(t, token) ==
    LET chans == {pendingRequests[t][k] : k \in Tokens} \ {NoChan} IN
    IF chans = {} THEN NoChan ELSE CHOOSE c \in chans : \A d \in chans : c <= d

\* responseCh, exists := tunnel.pendingRequests[resp.Token]
responseChFor(t, token) == pendingRequests[t][token]

\* A match that leaves the token in pendingRequests.
ResponseMatchNoDelete(p) ==
    /\ At(p, "Response", "match")
    /\ LET t == loc[p].tunnel
           token == loc[p].resp.Token IN
        IF token = NoToken
        THEN Return(p, ErrMissingToken) /\ UNCHANGED <<loc, timeAfter>>
        ELSE IF closed[t]
        THEN Return(p, ErrClosed) /\ UNCHANGED <<loc, timeAfter>>
        ELSE IF responseChFor(t, token) = NoChan
        THEN Return(p, ErrNoPending) /\ UNCHANGED <<loc, timeAfter>>
        ELSE /\ loc' = [loc EXCEPT ![p].responseCh = responseChFor(t, token)]
             /\ timeAfter' = [timeAfter EXCEPT ![p] =
                    IF responseCh[responseChFor(t, token)].full
                    THEN ResponseSendTimeout ELSE TimerOff]
             /\ Goto(p, "send")
             /\ UNCHANGED ret
    /\ UNCHANGED <<histVars, regVars, tunVars, timerVars, chanVars, supervisor, w>>

\* The empty-token check; under tunnel.mu: closed check, lookup of
\* pendingRequests[resp.Token], delete.  The send select is entered.
ResponseMatch(p) ==
    /\ At(p, "Response", "match")
    /\ LET t == loc[p].tunnel
           token == loc[p].resp.Token IN
        IF token = NoToken
        THEN Return(p, ErrMissingToken) /\ UNCHANGED <<pendingRequests, loc, timeAfter>>
        ELSE IF closed[t]
        THEN Return(p, ErrClosed) /\ UNCHANGED <<pendingRequests, loc, timeAfter>>
        ELSE IF responseChFor(t, token) = NoChan
        THEN Return(p, ErrNoPending) /\ UNCHANGED <<pendingRequests, loc, timeAfter>>
        ELSE /\ pendingRequests' = [pendingRequests EXCEPT ![t][token] = NoChan]
             /\ loc' = [loc EXCEPT ![p].responseCh = responseChFor(t, token)]
             /\ timeAfter' = [timeAfter EXCEPT ![p] =
                    IF responseCh[responseChFor(t, token)].full
                    THEN ResponseSendTimeout ELSE TimerOff]
             /\ Goto(p, "send")
             /\ UNCHANGED ret
    /\ UNCHANGED <<histVars, regVars, closed, requestChClosed, stopTimerClosed, timerVars, chanVars,
                   supervisor, w>>

\* select { case responseCh <- &ResponseWithToken{Resp: &resp}: close(responseCh)
\*          case <-time.After(5 * time.Second): close(responseCh); return error }
\* The send is taken when the buffer has room; a send on the closed channel
\* panics.
ResponseSend(p) ==
    /\ At(p, "Response", "send")
    /\ LET c == loc[p].responseCh
           ch == responseCh[c] IN
        IF ch.closed
        THEN /\ Return(p, PanicSendClosed)
             /\ UNCHANGED responseCh
        ELSE IF ~ch.full
        THEN /\ responseCh' = [responseCh EXCEPT ![c] =
                    CloseChan([ch EXCEPT !.buf = loc[p].resp, !.full = TRUE,
                                         !.via = loc[p].name, !.sends = @ + 1])]
             /\ Return(p, Ok)
        ELSE /\ timeAfter[p] = 0
             /\ responseCh' = [responseCh EXCEPT ![c] = CloseChan(ch)]
             /\ Return(p, ErrRespTimeout)
    /\ timeAfter' = [timeAfter EXCEPT ![p] = TimerOff]
    /\ UNCHANGED <<histVars, regVars, tunVars, timerVars, nextToken, supervisor, loc, w>>

(* ------------------------- TunnelController --------------------------- *)
StatusBadRequest == 400
StatusNotFound == 404
StatusRequestTimeout == 408
StatusInternalServerError == 500
StatusServiceUnavailable == 503

\* What a controller writes to the client: a status and a body.
NoWrite == [status |-> 0, body |-> ""]

\* serveHTML(w, status, ..., page, ...): the static pages of the service.
NotFound == [status |-> StatusNotFound, body |-> "notfound.html"]
Timeout == [status |-> StatusRequestTimeout, body |-> "timeout.html"]
LocalError == [status |-> StatusServiceUnavailable, body |-> "localerror.html"]

\* utils.BadRequest(ctx, gin.H{"error": err.Error()}): a JSON error body.
BadRequest(err) == [status |-> StatusBadRequest, body |-> err]

\* TunnelController.Tunnel after c.tunnelService.Tunnel returned err: with
\* WARNS_ON_HTML a page for "tunnel not found" and for "timeout", and
\* ctx.String(500, err.Error()) for every other error; without it
\* utils.BadRequest.  Nothing is written when the service returned nil.
TunnelController(err, WARNS_ON_HTML) ==
    IF err = Ok THEN NoWrite
    ELSE IF WARNS_ON_HTML
    THEN CASE err = ErrNotFound -> NotFound
           [] err = ErrTimeout -> Timeout
           [] OTHER -> [status |-> StatusInternalServerError, body |-> err]
    ELSE BadRequest(err)

(* ---------------- the single-channel variant (src/src) ---------------- *)
\* src/src/services/tunnel_service.go: one requestCh and one writerCh per
\* tunnel, no tokens.  Register is the same minting and insertion.  A request
\* is named by the Tunnel call that sent it; the writer of call p is w[p].

\* Get: lookup under RLock.
LegacyGetLookup(p) ==
    /\ CanStart(p, "Get")
    /\ \E name \in KnownNames :
        /\ IF tunnels[name] = NoTunnel
           THEN Begin(p, "Get", "done", Args(name), ErrNotFound)
           ELSE Begin(p, "Get", "entry", [Args(name) EXCEPT !.tunnel = tunnels[name]], "")
        /\ UNCHANGED <<histVars, regVars, tunVars, timerVars, chanVars, supervisor>>

\* tunnel.resetTimer(), without a lock; then req := <-tunnel.requestCh.
LegacyGetEntry(p) ==
    /\ At(p, "Get", "entry")
    /\ Goto(p, "recv")
    /\ resetTimer(loc[p].tunnel)
    /\ UNCHANGED <<histVars, regVars, tunVars, chanVars, supervisor, loc, ret, w, timeAfter>>

\* Tunnel: lookup under RLock.
LegacyTunnelLookup(p) ==
    /\ CanStart(p, "Tunnel")
    /\ \E name \in KnownNames :
        /\ IF tunnels[name] = NoTunnel
           THEN Begin(p, "Tunnel", "done", [Args(name) EXCEPT !.path = incoming], ErrNotFound)
           ELSE Begin(p, "Tunnel", "entry",
                      [Args(name) EXCEPT !.tunnel = tunnels[name], !.path = incoming], "")
        /\ UNCHANGED <<histVars, regVars, tunVars, timerVars, chanVars, supervisor>>

\* Under tunnel.mu: closed check, resetTimer; the body is read, the request
\* cloned, and the first select entered.
LegacyTunnelEntry(p) ==
    /\ At(p, "Tunnel", "entry")
    /\ IF closed[loc[p].tunnel]
       THEN /\ Return(p, ErrClosed)
            /\ UNCHANGED timerVars
       ELSE /\ \/ Return(p, ErrReadBody)
               \/ Goto(p, "send") /\ UNCHANGED ret
            /\ resetTimer(loc[p].tunnel)
    /\ UNCHANGED <<histVars, regVars, tunVars, chanVars, supervisor, loc, w, timeAfter>>

\* case tunnel.requestCh <- clonedRequest meets req := <-tunnel.requestCh; the
\* Tunnel call enters its second select, the Get returns the request.
LegacyDeliver(p, g) ==
    /\ At(p, "Tunnel", "send")
    /\ At(g, "Get", "recv")
    /\ loc[g].tunnel = loc[p].tunnel
    /\ pc' = [pc EXCEPT ![p] = "writer", ![g] = "done"]
    /\ ret' = [ret EXCEPT ![g] = Ok]
    /\ loc' = [loc EXCEPT ![g].req = [Token |-> p, Host |-> loc[p].name,
                                      Path |-> rewritePath(loc[p].path, SUBDOMAIN)]]
    /\ UNCHANGED <<histVars, regVars, tunVars, timerVars, chanVars, supervisor, w, timeAfter>>

\* case <-time.After(timeout) of either select of Tunnel: nobody took the
\* request, or the writer, in time.
LegacyTunnelTimeout(p) ==
    /\ OpOf(p) = "Tunnel" /\ pc[p] \in {"send", "writer"} /\ Quiet
    /\ Return(p, ErrTimeout)
    /\ UNCHANGED <<histVars, regVars, tunVars, timerVars, chanVars, supervisor, loc, w, timeAfter>>

\* The requests the agent has received and whose Tunnel calls still wait.
Unanswered == {p \in TunnelProcs : pc[p] = "writer"}

\* Response: lookup under RLock; the body is decoded.  The agent posts the
\* response to one of the requests it received.
LegacyResponseLookup(p) ==
    /\ CanStart(p, "Response")
    /\ \E name \in KnownNames, a \in Unanswered :
        /\ IF tunnels[name] = NoTunnel
           THEN Begin(p, "Response", "done", Args(name), ErrNotFound)
           ELSE Begin(p, "Response", "take",
                      [Args(name) EXCEPT !.tunnel = tunnels[name],
                                         !.resp = [Token |-> a, Kind |-> "plain"]], "")
        /\ UNCHANGED <<histVars, regVars, tunVars, timerVars, chanVars, supervisor>>

\* A hand-over that pairs a Response only with the Tunnel call it answers.
LegacyHandOverMatched(p, r) ==
    /\ At(p, "Tunnel", "writer")
    /\ At(r, "Response", "take")
    /\ loc[r].tunnel = loc[p].tunnel
    /\ loc[r].resp.Token = p
    /\ pc' = [pc EXCEPT ![p] = "done", ![r] = "write"]
    /\ ret' = [ret EXCEPT ![p] = Ok]
    /\ loc' = [loc EXCEPT ![r].wr = p]
    /\ UNCHANGED <<histVars, regVars, tunVars, timerVars, chanVars, supervisor, w, timeAfter>>

\* case tunnel.writerCh <- w meets case wr = <-tunnel.writerCh: the Tunnel call
\* returns nil, the Response holds the writer.
LegacyHandOver(p, r) ==
    /\ At(p, "Tunnel", "writer")
    /\ At(r, "Response", "take")
    /\ loc[r].tunnel = loc[p].tunnel
    /\ pc' = [pc EXCEPT ![p] = "done", ![r] = "write"]
    /\ ret' = [ret EXCEPT ![p] = Ok]
    /\ loc' = [loc EXCEPT ![r].wr = p]
    /\ UNCHANGED <<histVars, regVars, tunVars, timerVars, chanVars, supervisor, w, timeAfter>>

\* case <-time.After(5 * time.Second) of Response: no writer in time.
LegacyResponseTimeout(r) ==
    /\ At(r, "Response", "take")
    /\ Return(r, ErrWriterTimeout)
    /\ UNCHANGED <<histVars, regVars, tunVars, timerVars, chanVars, supervisor, loc, w, timeAfter>>

\* The headers, wr.WriteHeader(resp.StatusCode), wr.Write(bodyDecoded).
LegacyResponseWrite(r) ==
    /\ At(r, "Response", "write")
    /\ w' = [w EXCEPT ![loc[r].wr] = loc[r].resp]
    /\ \E e \in {Ok, ErrWrite} : Return(r, e)
    /\ UNCHANGED <<histVars, regVars, tunVars, timerVars, chanVars, supervisor, loc, timeAfter>>

(* --------------------------- lock discipline -------------------------- *)
\* The synchronisation operations of a thread, in the order of its code: the
\* operation and the operations that can come next (one past the last: the
\* thread returns).  "wait" is a blocking channel operation or select.
Op(do, next) == [do |-> do, next |-> next]

\* Register: the minting loop under RLock (again, or break), the insertion
\* under Lock, the start of the supervisor.
RegisterSync ==
    <<Op("mux.RLock", {2}), Op("mux.RUnlock", {1, 3}), Op("mux.Lock", {4}),
      Op("mux.Unlock", {5}), Op("go", {6})>>

\* The supervisor: its select; deferred, the drain under t.mu, the delete
\* under s.mux, the closes.
SupervisorSync ==
    <<Op("wait", {2}), Op("mu.Lock", {3}), Op("mu.Unlock", {4}), Op("mux.Lock", {5}),
      Op("mux.Unlock", {6})>>

\* Get: lookup (not found), closed check and resetTimer (closed), the select.
GetSync ==
    <<Op("mux.RLock", {2}), Op("mux.RUnlock", {3, 6}), Op("mu.Lock", {4}),
      Op("mu.Unlock", {5, 6}), Op("wait", {6})>>

\* A Response that unlocks t.mu after its send select.
ResponseSyncHeld ==
    <<Op("mux.RLock", {2}), Op("mux.RUnlock", {3, 6}), Op("mu.Lock", {4}),
      Op("wait", {5}), Op("mu.Unlock", {6})>>

\* Response: lookup (not found, bad JSON, no token), match under t.mu (closed,
\* no pending request), the send select.
ResponseSync ==
    <<Op("mux.RLock", {2}), Op("mux.RUnlock", {3, 6}), Op("mu.Lock", {4}),
      Op("mu.Unlock", {5, 6}), Op("wait", {6})>>

\* Tunnel: lookup (not found), closed check and resetTimer (closed), insertion
\* (closed; failed body read), closed check (closed), the send select (timeout,
\* client gone), the response select; deferred since the insertion, the delete
\* under t.mu (operations 11 and 12).
TunnelSync ==
    <<Op("mux.RLock", {2}), Op("mux.RUnlock", {3, 13}), Op("mu.Lock", {4}),
      Op("mu.Unlock", {5, 13}), Op("mu.Lock", {6}), Op("mu.Unlock", {7, 11, 13}),
      Op("mu.Lock", {8}), Op("mu.Unlock", {9, 11}), Op("wait", {10, 11}), Op("wait", {11}),
      Op("mu.Lock", {12}), Op("mu.Unlock", {13})>>

\* Close: lookup and delete under Lock (not found), mark under t.mu (already
\* closed); the send on stopTimer has a default case and does not block.
CloseSync ==
    <<Op("mux.Lock", {2}), Op("mux.Unlock", {3, 5}), Op("mu.Lock", {4}), Op("mu.Unlock", {5})>>

SyncOf(th) ==
    IF th = SupervisorThread THEN SupervisorSync
    ELSE CASE OpOf(th) = "Register" -> RegisterSync
           [] OpOf(th) = "Get" -> GetSync
           [] OpOf(th) = "Response" -> ResponseSync
           [] OpOf(th) = "Tunnel" -> TunnelSync
           [] OpOf(th) = "Close" -> CloseSync

Running(th) == position[th] \in 1..Len(SyncOf(th))
NextOp(th) == SyncOf(th)[position[th]]
HoldsMux(th) == mux.w = th \/ th \in mux.r
HoldsMu(th) == mu = th

\* Whether the lock operation do can be taken: the sync.RWMutex and sync.Mutex rules.
CanAcquire(do) ==
    CASE do = "mux.RLock" -> mux.w = NoThread
      [] do = "mux.Lock" -> mux.w = NoThread /\ mux.r = {}
      [] do = "mu.Lock" -> mu = NoThread
      [] OTHER -> FALSE

Acquires == {"mux.RLock", "mux.Lock", "mu.Lock"}
Releases == {"mux.RUnlock", "mux.Unlock", "mu.Unlock"}

\* Everything but the locks and the positions.
restVars ==
    <<regVars, tunVars, timerVars, chanVars, procVars, supervisor, maxActive, SUBDOMAIN, incoming,
      closers, closeReturned, laterRegister, expired>>

Advance(th) == \E n \in NextOp(th).next : position' = [position EXCEPT ![th] = n]

\* A call arrives.
SyncStart(th) ==
    /\ th # SupervisorThread
    /\ position[th] = 0
    /\ position' = [position EXCEPT ![th] = 1]
    /\ UNCHANGED <<mux, mu, restVars>>

SyncAcquire(th) ==
    /\ Running(th)
    /\ NextOp(th).do \in Acquires
    /\ CanAcquire(NextOp(th).do)
    /\ mux' = CASE NextOp(th).do = "mux.RLock" -> [mux EXCEPT !.r = @ \cup {th}]
                [] NextOp(th).do = "mux.Lock" -> [mux EXCEPT !.w = th]
                [] OTHER -> mux
    /\ mu' = IF NextOp(th).do = "mu.Lock" THEN th ELSE mu
    /\ Advance(th)
    /\ UNCHANGED restVars

SyncRelease(th) ==
    /\ Running(th)
    /\ NextOp(th).do \in Releases
    /\ mux' = CASE NextOp(th).do = "mux.RUnlock" -> [mux EXCEPT !.r = @ \ {th}]
                [] NextOp(th).do = "mux.Unlock" -> [mux EXCEPT !.w = NoThread]
                [] OTHER -> mux
    /\ mu' = IF NextOp(th).do = "mu.Unlock" THEN NoThread ELSE mu
    /\ Advance(th)
    /\ UNCHANGED restVars

\* The channel operation or select a thread was blocked in completes.
SyncWait(th) ==
    /\ Running(th)
    /\ NextOp(th).do = "wait"
    /\ Advance(th)
    /\ UNCHANGED <<mux, mu, restVars>>

\* go func(...): the supervisor starts.
SyncGo(th) ==
    /\ Running(th)
    /\ NextOp(th).do = "go"
    /\ \E n \in NextOp(th).next : position' = [position EXCEPT ![th] = n, ![SupervisorThread] = 1]
    /\ UNCHANGED <<mux, mu, restVars>>

(* ------------------------------- system ------------------------------- *)
\* The supervisors: parking in the select, and the teardown.
SupervisorStep ==
    \/ \E t \in TunnelIds : SupervisorPark(t)
    \/ \E t \in TunnelIds : SupervisorStopped(t)
    \/ \E t \in TunnelIds : SupervisorMark(t)
    \/ \E t \in TunnelIds : SupervisorUnregister(t)
    \/ \E t \in TunnelIds : SupervisorCloseRequestCh(t)
    \/ \E t \in TunnelIds : SupervisorCloseStopTimer(t)

\* The passing of time and the timers of the supervisors firing.
TimerStep ==
    \/ \E t \in TunnelIds : SupervisorInactivity(t)
    \/ \E t \in TunnelIds : SupervisorMaxLifetime(t)
    \/ Tick

RegisterStep ==
    \/ \E p \in RegisterProcs : RegisterMint(p)
    \/ \E p \in RegisterProcs : RegisterInsert(p)

CloseStep ==
    \/ \E p \in CloseProcs : CloseLookup(p)
    \/ \E p \in CloseProcs : CloseMark(p)
    \/ \E p \in CloseProcs : CloseSignal(p)

GetStep ==
    \/ \E p \in GetProcs : GetLookup(p)
    \/ \E p \in GetProcs : GetEntry(p)
    \/ \E p \in GetProcs : GetRecvClosed(p)
    \/ \E p \in GetProcs : GetCancel(p)

TunnelStep ==
    \/ \E p \in TunnelProcs : TunnelLookup(p)
    \/ \E p \in TunnelProcs : TunnelEntry(p)
    \/ \E p \in TunnelProcs : TunnelInsert(p)
    \/ \E p \in TunnelProcs : TunnelCheck(p)
    \/ \E p \in TunnelProcs, g \in GetProcs : Deliver(p, g)
    \/ \E p \in TunnelProcs : TunnelSendFail(p)
    \/ \E p \in TunnelProcs : TunnelRecv(p)
    \/ \E p \in TunnelProcs : TunnelAwaitFail(p)
    \/ \E p \in TunnelProcs : TunnelCleanup(p)

ResponseStep ==
    \/ \E p \in ResponseProcs : ResponseLookup(p)
    \/ \E p \in ResponseProcs : ResponseMatch(p)
    \/ \E p \in ResponseProcs : ResponseSend(p)

\* One tunnel over its whole life, timers included: every operation once, Close
\* twice.
Init == InitWith([Register |-> 1, Get |-> 1, Response |-> 1, Tunnel |-> 1, Close |-> 2], MaxActive)

Next ==
    \/ \E p \in Procs : Exit(p)
    \/ SupervisorStep
    \/ TimerStep
    \/ RegisterStep
    \/ CloseStep
    \/ GetStep
    \/ TunnelStep
    \/ ResponseStep

Spec == Init /\ [][Next]_vars

\* The registry over two registrations, within the lifetime of the timers:
\* two Register calls, two Close calls, one call of every other operation.
InitRegistry ==
    InitWith([Register |-> 2, Get |-> 1, Response |-> 1, Tunnel |-> 1, Close |-> 2],
             MaxActiveRegistry)

NextRegistry ==
    \/ \E p \in Procs : Exit(p)
    \/ SupervisorStep
    \/ RegisterStep
    \/ CloseStep
    \/ GetStep
    \/ TunnelStep
    \/ ResponseStep

SpecRegistry == InitRegistry /\ [][NextRegistry]_vars

\* Correlation, within the lifetime of a tunnel: two external requests on one
\* tunnel, two polls, two responses.
InitCorrelation ==
    InitWith([Register |-> 1, Get |-> 2, Response |-> 2, Tunnel |-> 2, Close |-> 0], MaxActive)

NextCorrelation ==
    \/ \E p \in Procs : Exit(p)
    \/ \E t \in TunnelIds : SupervisorPark(t)
    \/ RegisterStep
    \/ \E p \in GetProcs : GetLookup(p)
    \/ \E p \in GetProcs : GetEntry(p)
    \/ \E p \in GetProcs : GetCancel(p)
    \/ TunnelStep
    \/ ResponseStep

SpecCorrelation == InitCorrelation /\ [][NextCorrelation]_vars

\* Isolation, within the lifetime of two tunnels: an external request, a poll
\* and a response.
InitIsolation ==
    InitWith([Register |-> 2, Get |-> 1, Response |-> 1, Tunnel |-> 1, Close |-> 0], MaxActive)

SpecIsolation == InitIsolation /\ [][NextCorrelation]_vars

\* Responses, within the lifetime of the timers: one external request, two
\* responses, a poll and a Close.
InitResponse ==
    InitWith([Register |-> 1, Get |-> 1, Response |-> 2, Tunnel |-> 1, Close |-> 1], MaxActive)

SpecResponse == InitResponse /\ [][NextRegistry]_vars

\* The minting loop, iteration by iteration: two Register calls and two Close
\* calls, within the lifetime of the timers.
InitMint ==
    InitWith([Register |-> 2, Get |-> 0, Response |-> 0, Tunnel |-> 0, Close |-> 2], MaxActive)

NextMint ==
    \/ \E p \in Procs : Exit(p)
    \/ SupervisorStep
    \/ \E p \in RegisterProcs : RegisterValidate(p)
    \/ \E p \in RegisterProcs : RegisterDraw(p)
    \/ \E p \in RegisterProcs : RegisterInsert(p)
    \/ CloseStep

SpecMint == InitMint /\ [][NextMint]_vars

\* The path rewrite: one external request and one poll on one tunnel, in each
\* mode, for every path of at most MaxPathLen characters that starts with "/".
Chars == {"/", "a"}
Paths ==
    {s \in UNION {[1..n -> Chars] : n \in 1..MaxPathLen} : s[1] = "/"}

InitPath ==
    InitOf([Register |-> 1, Get |-> 1, Response |-> 0, Tunnel |-> 1, Close |-> 0], MaxActive,
           BOOLEAN, Paths)

NextPath ==
    \/ \E p \in Procs : Exit(p)
    \/ \E t \in TunnelIds : SupervisorPark(t)
    \/ RegisterStep
    \/ \E p \in GetProcs : GetLookup(p)
    \/ \E p \in GetProcs : GetEntry(p)
    \/ \E p \in TunnelProcs : TunnelLookup(p)
    \/ \E p \in TunnelProcs : TunnelEntry(p)
    \/ \E p \in TunnelProcs : TunnelInsert(p)
    \/ \E p \in TunnelProcs : TunnelCheck(p)
    \/ \E p \in TunnelProcs, g \in GetProcs : Deliver(p, g)
    \/ \E p \in TunnelProcs : TunnelAwaitFail(p)
    \/ \E p \in TunnelProcs : TunnelCleanup(p)

SpecPath == InitPath /\ [][NextPath]_vars

\* The locking of one call of every operation and of the supervisor.
InitLocks ==
    InitWith([Register |-> 1, Get |-> 1, Response |-> 1, Tunnel |-> 1, Close |-> 1], MaxActive)

NextLocks ==
    \/ \E th \in Threads : SyncStart(th)
    \/ \E th \in Threads : SyncAcquire(th)
    \/ \E th \in Threads : SyncRelease(th)
    \/ \E th \in Threads : SyncWait(th)
    \/ \E th \in Threads : SyncGo(th)

SpecLocks == InitLocks /\ [][NextLocks]_vars

\* The single-channel variant, within the lifetime of a tunnel: two external
\* requests, two polls, two responses.
InitLegacy ==
    InitWith([Register |-> 1, Get |-> 2, Response |-> 2, Tunnel |-> 2, Close |-> 0], MaxActive)

NextLegacy ==
    \/ \E p \in Procs : Exit(p)
    \/ \E t \in TunnelIds : SupervisorPark(t)
    \/ RegisterStep
    \/ \E p \in GetProcs : LegacyGetLookup(p)
    \/ \E p \in GetProcs : LegacyGetEntry(p)
    \/ \E p \in TunnelProcs : LegacyTunnelLookup(p)
    \/ \E p \in TunnelProcs : LegacyTunnelEntry(p)
    \/ \E p \in TunnelProcs, g \in GetProcs : LegacyDeliver(p, g)
    \/ \E p \in TunnelProcs : LegacyTunnelTimeout(p)
    \/ \E p \in ResponseProcs : LegacyResponseLookup(p)
    \/ \E p \in TunnelProcs, r \in ResponseProcs : LegacyHandOver(p, r)
    \/ \E r \in ResponseProcs : LegacyResponseTimeout(r)
    \/ \E r \in ResponseProcs : LegacyResponseWrite(r)

SpecLegacy == InitLegacy /\ [][NextLegacy]_vars

\* The steps the code takes by itself: every step but the start of a call and
\* the cancellation of a client's or an agent's request.
Progress ==
    \/ \E p \in Procs : Exit(p)
    \/ SupervisorStep
    \/ TimerStep
    \/ \E p \in RegisterProcs : RegisterInsert(p)
    \/ \E p \in CloseProcs : CloseMark(p) \/ CloseSignal(p)
    \/ \E p \in GetProcs : GetEntry(p) \/ GetRecvClosed(p)
    \/ \E p \in TunnelProcs :
        \/ TunnelEntry(p) \/ TunnelInsert(p) \/ TunnelCheck(p) \/ TunnelRecv(p)
        \/ TunnelCleanup(p)
        \/ \E g \in GetProcs : Deliver(p, g)
        \/ (TunnelSendFail(p) \/ TunnelAwaitFail(p)) /\ ret'[p] # ErrClientGone
    \/ \E p \in ResponseProcs : ResponseMatch(p) \/ ResponseSend(p)

\* One tunnel over its whole life under fair scheduling, with timers that fire:
\* every operation once; a step the code can take is eventually taken.
InitLive ==
    InitWith([Register |-> 1, Get |-> 1, Response |-> 1, Tunnel |-> 1, Close |-> 1], MaxActive)

SpecLive == InitLive /\ [][Next]_vars /\ WF_vars(Progress)

(* ------------------------------- claims ------------------------------- *)
\* C1: token correlation.  Whatever a Tunnel call has written to its client is
\* the ResponseData whose token is the token this call minted, never one that
\* was posted for the token of another call.
C1_TokenCorrelation ==
    \A p \in TunnelProcs : w[p] # NoResp => w[p].Token = loc[p].token

\* Responses in the reverse order of the requests: the call with the later token
\* has written its response while the call with the earlier token still waits.
C1_Witness ==
    \E p, q \in TunnelProcs :
        /\ pc[p] = "await" /\ loc[p].token # NoToken
        /\ loc[q].token > loc[p].token
        /\ loc[q].tunnel = loc[p].tunnel
        /\ pc[q] = "cleanup" /\ w[q] # NoResp

\* C2: cross-tunnel isolation.  The request a Get returns was sent by a Tunnel
\* call on the tunnel the Get polls, and the response a Tunnel call receives was
\* posted to the tunnel of that call.
C2_Isolation ==
    /\ \A g \in GetProcs : loc[g].req # NoReq => loc[g].req.Host = loc[g].name
    /\ \A p \in TunnelProcs : loc[p].via # NoName => loc[p].via = loc[p].name

\* Two registered tunnels: a Tunnel call blocked sending on one while a Get
\* polls the other, and a Response posted to the other with the token of the
\* call has been refused.
C2_Witness ==
    \E p \in TunnelProcs, g \in GetProcs, r \in ResponseProcs :
        /\ pc[p] = "send" /\ pc[g] = "recv"
        /\ loc[g].tunnel # loc[p].tunnel /\ loc[g].name # loc[p].name
        /\ pc[r] = "done" /\ ret[r] = ErrNoPending
        /\ loc[r].resp.Token = loc[p].token /\ loc[r].name = loc[g].name

\* The Tunnel calls that have inserted token k into tunnel t and not returned.
Owners(t, k) ==
    {p \in TunnelProcs : /\ loc[p].tunnel = t /\ loc[p].token = k
                         /\ pc[p] \in {"check", "send", "await", "cleanup"}}

\* Every pending token has exactly one owner; a returned Tunnel call has no slot.
C3_SlotOwnedState ==
    /\ \A t \in TunnelIds, k \in Tokens :
        pendingRequests[t][k] # NoChan => Cardinality(Owners(t, k)) = 1
    /\ \A p \in TunnelProcs, t \in TunnelIds :
        pc[p] = "done" /\ loc[p].token # NoToken => pendingRequests[t][loc[p].token] = NoChan

\* A step that removes a slot is the delete of the matching Response, the
\* cleanup of the owner, or the drain of the supervisor.
C3_SlotRemoval ==
    \A t \in TunnelIds, k \in Tokens :
        pendingRequests[t][k] # NoChan /\ pendingRequests'[t][k] = NoChan =>
            \/ \E r \in ResponseProcs : /\ pc[r] = "match" /\ pc'[r] = "send"
                                        /\ loc[r].tunnel = t /\ loc[r].resp.Token = k
            \/ \E p \in Owners(t, k) : pc[p] = "cleanup" /\ pc'[p] = "done"
            \/ supervisor[t] = "mark" /\ supervisor'[t] = "unregister"

\* C3: pending-slot ownership.  Every token in a pending map belongs to exactly
\* one Tunnel call that inserted it and has not returned; after a Tunnel call
\* has returned no pending map holds its token; and a slot is removed only by
\* the matching Response, the cleanup of the owner, or the drain of the
\* supervisor.
C3_SlotOwnership == []C3_SlotOwnedState /\ [][C3_SlotRemoval]_vars

\* A Tunnel call that inserted its token has returned on the timeout of its
\* response.
C3_Witness ==
    \E p \in TunnelProcs :
        pc[p] = "done" /\ loc[p].token # NoToken /\ ret[p] = ErrTimeout

\* The calls that probe a name: Get, Tunnel, Response and Close.
Probes == GetProcs \cup TunnelProcs \cup ResponseProcs \cup CloseProcs

\* C4, as stated: a call on a name that starts after a Close of the name has
\* returned and a later Register call has returned ends with tunnel not found.
C4_NotFoundAfterClose ==
    \A p \in Probes :
        loc[p].afterRegister => pc[p] = "done" /\ ret[p] = ErrNotFound

\* C4, amended: a call on a name that starts after a Close of the name has
\* returned ends with tunnel not found, provided no Register has inserted a
\* tunnel under the name since a Close removed it.
C4_NotFoundUnlessReinserted ==
    \A p \in Probes :
        loc[p].afterClose /\ loc[p].removed => pc[p] = "done" /\ ret[p] = ErrNotFound

\* A call on the closed name, started after the Close and a later Register of
\* another name have returned, has ended with tunnel not found.
C4_Witness ==
    \E p \in Probes :
        /\ loc[p].afterRegister /\ loc[p].afterClose /\ loc[p].removed
        /\ pc[p] = "done" /\ ret[p] = ErrNotFound

\* C5: after a Close of a tunnel has returned, no send on the requestCh of the
\* tunnel completes: no Get returns a request of a tunnel whose Close had
\* returned when the request was handed over.
C5_NoDeliveryAfterClose ==
    \A g \in GetProcs :
        pc[g] = "done" /\ loc[g].req # NoReq => ~closeReturned[loc[g].tunnel]

\* C6: a Tunnel call that was in its send or response select when the tunnel
\* terminated, and that neither timed out, lost its client nor received a
\* response, returns "tunnel is closed" and has written nothing.
C6_InFlightTunnelClosed ==
    \A p \in TunnelProcs :
        /\ pc[p] \in {"cleanup", "done"}
        /\ loc[p].terminated
        /\ loc[p].resp = NoResp
        /\ ret[p] \notin {ErrTimeout, ErrClientGone}
        => ret[p] = ErrClosed /\ w[p] = NoResp

\* Looking up the name of an open tunnel returns that tunnel.
C7_OpenIsRegistered ==
    \A t \in 1..nextTunnel : ~closed[t] => tunnels[tunnelName[t]] = t

\* No step resets a closed flag.
C7_ClosedIsTerminal == \A t \in TunnelIds : closed[t] => closed'[t]

\* C7: every tunnel Register has inserted and whose closed flag is false is in
\* the registry under its own name; closed, once true, stays true.
C7_RegistryClosed == []C7_OpenIsRegistered /\ [][C7_ClosedIsTerminal]_vars

\* C8: no step replaces an entry of the registry by another tunnel: Register
\* inserts only under a name that is absent at the moment of the insertion.
C8_NoOverwrite ==
    [][\A n \in Names : tunnels[n] # NoTunnel => tunnels'[n] \in {NoTunnel, tunnels[n]}]_vars

\* The state of the tunnels and of the registry.
tunnelState ==
    <<tunnels, closed, pendingRequests, requestChClosed, stopTimerClosed, inactivityTimer,
      maxLifetimeTimer, supervisor, responseCh>>

\* At most one Close call finds a tunnel; a later Close of the name returns
\* tunnel not found; a Close that finds its tunnel already closed returns nil
\* without the stop signal.
C9_SecondCloseState ==
    /\ \A t \in TunnelIds : closers[t] <= 1
    /\ \A p \in CloseProcs :
        /\ loc[p].removed =>
            pc[p] = "done" /\ ret[p] = ErrNotFound /\ loc[p].tunnel = NoTunnel
        /\ pc[p] = "signal" => ~loc[p].alreadyClosed
        /\ loc[p].alreadyClosed => pc[p] = "done" /\ ret[p] = Ok

\* The lookup of a later Close of the name changes nothing.
C9_SecondCloseStep ==
    \A p \in CloseProcs :
        pc[p] = "idle" /\ pc'[p] # "idle" /\ loc'[p].removed => tunnelState' = tunnelState

\* C9: Close is idempotent.  At most one Close call finds a tunnel; a Close of a
\* name whose tunnel a Close has removed, the first Close returned or not,
\* returns tunnel not found, and its step leaves the tunnels and the registry
\* as they are; a Close that finds its tunnel already closed returns without
\* the stop signal.
C9_CloseIdempotent == []C9_SecondCloseState /\ [][C9_SecondCloseStep]_vars

\* A second Close of the name has returned while the first is still running.
C9_Witness ==
    \E p, q \in CloseProcs :
        /\ loc[p].removed /\ pc[p] = "done" /\ ret[p] = ErrNotFound
        /\ pc[q] \in {"mark", "signal"} /\ loc[q].name = loc[p].name

\* A Get or Tunnel call passes its entry on tunnel t: found and not closed.
Entered(t) ==
    \E p \in GetProcs \cup TunnelProcs :
        pc[p] = "entry" /\ loc[p].tunnel = t /\ pc'[p] \in {"recv", "insert"}

C11_LifetimeStep(t) ==
    \/ maxLifetimeTimer'[t] = maxLifetimeTimer[t]
    \/ nextTunnel' = t /\ nextTunnel = t - 1 /\ maxLifetimeTimer'[t] = MAX_TTL
    \/ /\ maxLifetimeTimer[t] > 0 /\ maxLifetimeTimer'[t] = maxLifetimeTimer[t] - 1
       /\ pc' = pc /\ supervisor' = supervisor
    \/ /\ maxLifetimeTimer'[t] = TimerOff
       /\ supervisor[t] \in {"select", "stopped"} /\ supervisor'[t] = "mark"

\* Tunnel t has been created.
Created(t) == supervisor[t] # "none"

\* Tunnel t is torn down: closed, and not in the registry.
TornDown(t) == closed[t] /\ tunnels[tunnelName[t]] # t

\* C11: the max-lifetime timer is independent of activity.  No operation
\* re-arms it: once armed at creation it only counts down, one unit per unit of
\* time whatever Get and Tunnel calls do, until the teardown stops it; and every
\* tunnel that is created is eventually torn down by its supervisor: closed and
\* removed from the registry.
C11_MaxLifetime ==
    /\ [][\A t \in TunnelIds : C11_LifetimeStep(t)]_vars
    /\ \A t \in TunnelIds : Created(t) ~> TornDown(t)

\* The lifetime timer has fired although the inactivity timer was re-armed on
\* the way and is still running, with a Get polling the tunnel.
C11_Witness ==
    \E t \in TunnelIds, g \in GetProcs :
        /\ maxLifetimeTimer[t] = 0 /\ inactivityTimer[t] = INACTIVITY_TTL
        /\ pc[g] = "recv" /\ loc[g].tunnel = t /\ ~closed[t]

\* C12: inactivity expiry.  A Get, Tunnel, Response or Close call that starts on
\* the name of a tunnel after its inactivity timer has fired and its supervisor
\* has taken the expiry returns tunnel not found (once the supervisor has
\* removed the name a lookup finds nothing: the calls that matter start
\* before).
C12_NotFoundAfterExpiry ==
    [][\A p \in Probes :
        /\ pc[p] = "idle" /\ pc'[p] # "idle"
        /\ \E t \in TunnelIds : expired[t] /\ tunnelName[t] = loc'[p].name
        => pc'[p] = "done" /\ ret'[p] = ErrNotFound]_vars

\* C13: TUNNEL_REQUEST_TIMEOUT bounds the whole external request.  The wait in
\* the send select and the wait in the response select share one period: when
\* a Tunnel call has handed its request over, the time left to it to wait for
\* the response is no more than what was left of the period in its send select.
C13_EndToEndTimeout ==
    [][\A p \in TunnelProcs :
        pc[p] = "send" /\ pc'[p] = "await" => timeAfter'[p] <= timeAfter[p]]_vars

\* C14: no hung handler.  Under fair scheduling, with timers that fire, every
\* Get call and every Tunnel call that has started eventually returns, whether
\* or not an agent polls or responds and however its tunnel ends; a Get blocked
\* on requestCh is woken by the teardown of the tunnel.  The calls being
\* finitely many, this is: from some time on, no Get or Tunnel call is in
\* progress.
C14_NoHungHandler ==
    <>[](\A p \in GetProcs \cup TunnelProcs : pc[p] \in {"idle", "gone"})

\* A Get that was blocked on requestCh has been woken by close(t.requestCh) and
\* has returned its error.
C14_Witness ==
    \E g \in GetProcs :
        pc[g] = "done" /\ ret[g] = ErrNilRequest /\ requestChClosed[loc[g].tunnel]

\* The Get calls that receive the request of Tunnel call p in a step, and the
\* Tunnel calls whose request Get call g receives in a step.
Receivers(p) ==
    {g \in GetProcs : /\ pc[g] = "recv" /\ pc'[g] = "done" /\ ret'[g] = Ok
                      /\ loc'[g].req = clonedRequest(p)}

Senders(g) ==
    {p \in TunnelProcs : /\ pc[p] = "send" /\ pc'[p] = "await"
                         /\ loc'[g].req = clonedRequest(p)}

\* C15: request consumption by Get.  A request leaves its sender in a step in
\* which exactly one Get receives it (and a call sends once: it never returns to
\* its send select); a Get returns successfully only in a step in which it
\* receives the request of exactly one sender; a Get that ends on the
\* cancellation of the agent's context returns the agent-disconnected error
\* with no request, and every sender stays in its send select, from where the
\* request goes to a later Get.
C15_GetConsumesOne ==
    [][/\ \A p \in TunnelProcs :
            /\ (pc[p] = "send" /\ pc'[p] = "await") => Cardinality(Receivers(p)) = 1
            /\ (pc[p] # "send" /\ pc'[p] = "send") => pc[p] = "check"
       /\ \A g \in GetProcs :
            /\ (pc'[g] = "done" /\ ret'[g] = Ok /\ pc[g] # "done") =>
                    /\ pc[g] = "recv"
                    /\ Cardinality(Senders(g)) = 1
            /\ (pc[g] = "recv" /\ pc'[g] = "done" /\ ret'[g] = ErrAgentGone) =>
                    /\ loc'[g].req = NoReq
                    /\ \A p \in TunnelProcs : pc'[p] = pc[p] /\ loc'[p] = loc[p]
      ]_vars

\* A Get has just returned on cancellation while a request was waiting on the
\* channel of its tunnel; the request is still waiting, and another Get of
\* the tunnel is in its select.
C15_Witness ==
    \E g, h \in GetProcs, p \in TunnelProcs :
        /\ pc[g] = "done" /\ ret[g] = ErrAgentGone
        /\ pc[p] = "send" /\ loc[p].tunnel = loc[g].tunnel
        /\ pc[h] = "recv" /\ loc[h].tunnel = loc[g].tunnel

\* The step in which Response call p leaves its checks has no effect but the
\* error r it returns: no send select is entered, the pending map and the
\* response channels are as before.
Rejects(p, r) ==
    /\ pc'[p] = "done" /\ ret'[p] = r
    /\ pendingRequests' = pendingRequests
    /\ responseCh' = responseCh

\* C16 as stated: a Response whose token is absent from the pending map of its
\* tunnel returns the unknown-token error and changes nothing; one with an
\* empty token returns the missing-token error and changes nothing.
C16_UnknownToken ==
    [][\A p \in ResponseProcs : (pc[p] = "match" /\ pc'[p] # "match") =>
            LET t == loc[p].tunnel
                token == loc[p].resp.Token IN
            /\ token = NoToken => Rejects(p, ErrMissingToken)
            /\ (token # NoToken /\ pendingRequests[t][token] = NoChan) =>
                    Rejects(p, ErrNoPending)
      ]_vars

\* C16, amended: at most one Response is sent per token; a Response with an
\* empty token returns the missing-token error; one whose tunnel is closed
\* returns the tunnel-closed error; one whose token is absent from the pending
\* map of an open tunnel returns the unknown-token error; none of them enters
\* the send select or changes the pending map or a response channel.
C16_AtMostOneResponse ==
    /\ [](\A c \in Tokens : responseCh[c].sends <= 1)
    /\ [][\A p \in ResponseProcs : (pc[p] = "match" /\ pc'[p] # "match") =>
            LET t == loc[p].tunnel
                token == loc[p].resp.Token IN
            /\ token = NoToken => Rejects(p, ErrMissingToken)
            /\ (token # NoToken /\ closed[t]) => Rejects(p, ErrClosed)
            /\ (token # NoToken /\ ~closed[t] /\ pendingRequests[t][token] = NoChan) =>
                    Rejects(p, ErrNoPending)
            /\ (token # NoToken /\ ~closed[t] /\ pendingRequests[t][token] # NoChan) =>
                    /\ pc'[p] = "send"
                    /\ pendingRequests'[t][token] = NoChan
      ]_vars

\* A second Response for a token an earlier Response has answered has returned
\* the unknown-token error.
C16_Witness ==
    \E p \in ResponseProcs :
        /\ pc[p] = "done" /\ ret[p] = ErrNoPending
        /\ responseCh[loc[p].resp.Token].sends = 1

\* C17: local-api-error propagation.  When the response a Tunnel call received
\* carries the header Tunnerse = local-api-error, the service has written
\* nothing of it to the client's response writer, and the client receives
\* status 503: the local-error page when WARNS_ON_HTML is set.
C17_LocalApiError ==
    \A p \in TunnelProcs :
        (pc[p] = "done" /\ loc[p].resp.Kind = "local-api-error") =>
            /\ ret[p] = ErrLocalApi
            /\ w[p] = NoResp
            /\ \A WARNS_ON_HTML \in BOOLEAN :
                /\ TunnelController(ret[p], WARNS_ON_HTML).status = StatusServiceUnavailable
                /\ WARNS_ON_HTML => TunnelController(ret[p], WARNS_ON_HTML) = LocalError

\* C18 as stated: whatever a Tunnel call has written to its response writer,
\* it returns success; a call that has returned an error has written nothing.
C18_WritesOnlyOnSuccess ==
    \A p \in TunnelProcs : w[p] # NoResp => ret[p] = Ok

\* C18, amended: response-writer discipline.  A response writer is written
\* only by a step of its own Tunnel call, the one that received the response
\* matching the token of the call, with a plain header and a body that decodes;
\* the call then returns the result of writing the body: success, or the error
\* of the write.  On every other path (not found, closed, timeout, client
\* disconnect, send on a closed channel, failed body read, local-api-error, nil
\* response, base64 failure) nothing is written, and no step of a Get, a
\* Response, a Close or a supervisor changes a writer.
C18_WriterDiscipline ==
    /\ [](\A p \in Procs :
            /\ w[p] # NoResp =>
                    /\ OpOf(p) = "Tunnel" /\ pc[p] \in {"cleanup", "done"}
                    /\ ret[p] \in {Ok, ErrWrite}
                    /\ w[p].Kind = "plain" /\ w[p].Token = loc[p].token
            /\ (OpOf(p) = "Tunnel" /\ pc[p] \in {"cleanup", "done"} /\ ret[p] = Ok) =>
                    w[p] # NoResp)
    /\ [][\A p \in Procs : w'[p] # w[p] =>
            \/ pc[p] = "await" /\ pc'[p] = "cleanup" /\ w[p] = NoResp
            \/ pc[p] = "done" /\ pc'[p] = "gone" /\ w'[p] = NoResp
      ]_vars

\* A Tunnel call has written the response for its token and returned success.
C18_Witness ==
    \E p \in TunnelProcs :
        pc[p] = "done" /\ ret[p] = Ok /\ w[p].Token = loc[p].token /\ w[p].Kind = "plain"

\* C19: Register terminates.  A Register call makes at most AttemptCap draws
\* in its minting loop: it is never in the loop with AttemptCap draws made, all
\* of them of names that are present; it has left the loop with a name or
\* returned the name-exhausted error.
C19_BoundedMinting ==
    \A p \in RegisterProcs : pc[p] = "mint" => loc[p].attempts < AttemptCap

\* C20: per-tunnel FIFO delivery.  If Tunnel call x entered its send select on
\* the request channel of a tunnel before Tunnel call y did, the request of x
\* is not received after the request of y: no request is received whose call
\* was overtaken by a call that entered the select after it.
C20_FifoDelivery ==
    [][\A x, y \in TunnelProcs :
            (pc[x] = "send" /\ pc'[x] = "await") => x \notin loc[y].overtook
      ]_vars

\* A tunnel segment: not empty, no slash.
Segment(s) == Len(s) > 0 /\ \A i \in 1..Len(s) : s[i] # "/"

\* C21: path rewrite.  The request a Get receives has, in path-prefix mode,
\* the path "/" + rest when the incoming path is /<tunnel>/<rest>, whatever
\* slashes rest holds, and the path "/" when the incoming path is /<tunnel> or
\* /<tunnel>/; in subdomain mode it has the incoming path.
C21_PathRewrite ==
    \A g \in GetProcs, p \in TunnelProcs :
        (pc[g] = "done" /\ ret[g] = Ok /\ loc[g].req.Token = loc[p].token) =>
            LET in == loc[p].path
                out == loc[g].req.Path IN
            IF SUBDOMAIN
            THEN out = in
            ELSE \A k \in 2..Len(in) :
                    LET tunnel == SubSeq(in, 2, k)
                        rest == SubSeq(in, k + 2, Len(in)) IN
                    /\ (Segment(tunnel) /\ k = Len(in)) => out = <<"/">>
                    /\ (Segment(tunnel) /\ k < Len(in) /\ in[k + 1] = "/") =>
                            out = <<"/">> \o rest

\* In path-prefix mode a Get has received the request for /a/a/a: a rest with
\* a slash in it.
C21_Witness ==
    \E g \in GetProcs :
        /\ pc[g] = "done" /\ ret[g] = Ok /\ ~SUBDOMAIN
        /\ incoming = <<"/", "a", "/", "a", "/", "a">>
        /\ loc[g].req.Path = <<"/", "a", "/", "a">>

\* The step of a Close call.
CloseActs == \E p \in CloseProcs : pc'[p] # pc[p] /\ pc[p] # "done"

\* The channels of the service that are closed.
ClosedChans ==
    <<requestChClosed, stopTimerClosed, [c \in Tokens |-> responseCh[c].closed]>>

\* C22: teardown order and once-only close.  The request channel of a tunnel
\* is closed by a step of the teardown of its supervisor, which takes that step
\* once; when it is closed the tunnel is marked closed, its pending map is
\* empty and the registry does not hold the tunnel; a step of Close closes no
\* channel; and the channel of every tunnel that was created is closed in the end.
C22_TeardownOrder ==
    /\ [][/\ \A t \in TunnelIds : requestChClosed'[t] # requestChClosed[t] =>
                /\ ~requestChClosed[t]
                /\ supervisor[t] = "closeRequestCh" /\ supervisor'[t] = "closeStopTimer"
                /\ closed[t]
                /\ \A k \in Tokens : pendingRequests[t][k] = NoChan
                /\ \A n \in Names : tunnels[n] # t
          /\ \A t \in TunnelIds : supervisor[t] # "closeRequestCh" => supervisor'[t] # "closeRequestCh"
                                  \/ supervisor[t] = "unregister"
          /\ CloseActs => ClosedChans' = ClosedChans
         ]_vars
    /\ <>[](\A t \in TunnelIds : Created(t) => requestChClosed[t])

\* The request channel of a tunnel has been closed on the way of a Close call,
\* which is still running.
C22_Witness ==
    \E t \in TunnelIds, p \in CloseProcs :
        requestChClosed[t] /\ loc[p].tunnel = t /\ pc[p] = "signal"

\* Response call r processes, in this step, a response for the token of Tunnel
\* call p, on the tunnel of p, which is not closed, while p waits for its
\* response after a Get has received its request.
Processes(r, p) ==
    /\ pc[r] = "match" /\ pc'[r] # "match"
    /\ loc[r].resp.Token = loc[p].token /\ loc[r].tunnel = loc[p].tunnel
    /\ pc[p] = "await" /\ ~closed[loc[p].tunnel]

\* An earlier Response has taken the slot of token k.
Answered(k) ==
    \/ responseCh[k].sends > 0 \/ responseCh[k].closed
    \/ \E q \in ResponseProcs : pc[q] = "send" /\ loc[q].responseCh = k

\* C23 as stated: a Response for token T that is processed while the owning
\* Tunnel call waits, after a Get received its request, on a tunnel that is not
\* closed, does not return the unknown-token error.
C23_ResponseFindsSlot ==
    [][\A r \in ResponseProcs, p \in TunnelProcs :
            Processes(r, p) => ~(pc'[r] = "done" /\ ret'[r] = ErrNoPending)
      ]_vars

\* C23, amended: slot before enqueue.  A Tunnel call enters its send select
\* only after the step that put the slot of its token into the pending map;
\* and the first Response for token T, processed while the owning Tunnel call
\* waits on a tunnel that is not closed, finds the slot and enters its send.
C23_SlotBeforeEnqueue ==
    [][/\ \A p \in TunnelProcs :
            /\ (pc'[p] = "send" /\ pc[p] # "send") => pc[p] = "check"
            /\ (pc'[p] = "check" /\ pc[p] # "check") =>
                    /\ pc[p] = "insert"
                    /\ pendingRequests'[loc[p].tunnel][loc'[p].token] = loc'[p].responseCh
                    /\ loc'[p].responseCh # NoChan
       /\ \A r \in ResponseProcs, p \in TunnelProcs :
            (Processes(r, p) /\ ~Answered(loc[p].token)) =>
                /\ pc'[r] = "send"
                /\ loc'[r].responseCh = loc[p].responseCh
      ]_vars

\* A Response has found the slot of a Tunnel call that waits for it.
C23_Witness ==
    \E r \in ResponseProcs, p \in TunnelProcs :
        /\ pc[r] = "send" /\ loc[r].responseCh = loc[p].responseCh
        /\ pc[p] = "await" /\ ~closed[loc[p].tunnel]

\* A thread waits for a lock it cannot take.
Blocked(th) == Running(th) /\ NextOp(th).do \in Acquires /\ ~CanAcquire(NextOp(th).do)

\* The threads that hold the lock thread th waits for.
Holders(th) ==
    IF NextOp(th).do = "mu.Lock" THEN {h \in Threads : HoldsMu(h)}
    ELSE {h \in Threads : HoldsMux(h)}

\* C24: lock discipline.  No thread is in a blocking channel operation or
\* select, or has returned, while it holds s.mux or t.mu; none holds both; and
\* whenever a thread waits for a lock, a thread that holds it is about to
\* release it: no state is a deadlock on the locks.
C24_LockDiscipline ==
    \A th \in Threads :
        /\ ~(HoldsMux(th) /\ HoldsMu(th))
        /\ (HoldsMux(th) \/ HoldsMu(th)) => Running(th) /\ NextOp(th).do # "wait"
        /\ Blocked(th) =>
                \E h \in Holders(th) \ {th} : Running(h) /\ NextOp(h).do \in Releases

\* The supervisor waits for t.mu, which a call holds, while another call is
\* blocked in its select.
C24_Witness ==
    /\ Blocked(SupervisorThread)
    /\ \E g \in Threads : Running(g) /\ NextOp(g).do = "wait"

\* C25: the single-channel variant.  A Response takes the writer of whichever
\* Tunnel call of its tunnel is sending on writerCh, whatever request its
\* response answers; and it writes to the writer it took only after the Tunnel
\* call that supplied it has returned.
C25_LegacyAnyWriter ==
    /\ [](\A p \in TunnelProcs, r \in ResponseProcs :
            (Quiet /\ pc[p] = "writer" /\ pc[r] = "take" /\ loc[r].tunnel = loc[p].tunnel) =>
                ENABLED LegacyHandOver(p, r))
    /\ [][\A q \in Procs : (w'[q] # w[q] /\ w'[q] # NoResp) =>
            /\ pc[q] \in {"done", "gone"}
            /\ \E r \in ResponseProcs : pc[r] = "write" /\ loc[r].wr = q /\ w'[q] = loc[r].resp
      ]_vars

\* With two Tunnel calls on one tunnel, the response to the request of one has
\* been written to the writer of the other, which had returned.
C25_Witness ==
    \E a, b \in TunnelProcs :
        /\ a # b
        /\ w[b] # NoResp /\ w[b].Token = a
        /\ pc[b] = "gone"

\* C26: the teardown of a tunnel removes only its own registry entry: a
\* supervisor's delete leaves the entry of every other tunnel in place, also of
\* one registered later under the same name.
C26_TeardownRemovesOwn ==
    [][\A t, u \in TunnelIds :
        (u # t /\ Created(u) /\ supervisor[t] = "unregister" /\ supervisor'[t] # "unregister"
              /\ tunnels[tunnelName[u]] = u) =>
            tunnels'[tunnelName[u]] = u]_vars

\* C27: no Tunnel call sends, or is blocked sending, on requestCh once the
\* supervisor has closed it: the closed check under mu before the send select
\* excludes the panic.
C27_NoSendOnClosedRequestCh ==
    \A p \in TunnelProcs :
        /\ pc[p] = "send" => ~requestChClosed[loc[p].tunnel]
        /\ ret[p] # PanicSendClosed

\* C28: Close never makes its non-blocking send on stopTimer after the
\* supervisor has closed stopTimer: the alreadyClosed check excludes the panic.
C28_NoSendOnClosedStopTimer ==
    \A p \in CloseProcs :
        /\ pc[p] = "signal" => ~stopTimerClosed[loc[p].tunnel]
        /\ ret[p] # PanicSendClosed

\* C29: a response channel is single-use: at most one value is sent to it, it
\* is closed at most once, and a Response that is about to send finds it open
\* and empty; the send succeeds at once, and neither the 5-second branch nor a
\* send on the closed channel happens.
C29_SingleUse ==
    /\ \A c \in Tokens : responseCh[c].sends <= 1 /\ responseCh[c].closes <= 1
    /\ \A p \in ResponseProcs :
        /\ pc[p] = "send" =>
              /\ ~responseCh[loc[p].responseCh].closed
              /\ ~responseCh[loc[p].responseCh].full
              /\ responseCh[loc[p].responseCh].sends = 0
        /\ ret[p] \notin {ErrRespTimeout, PanicSendClosed}

\* A Response has sent its value and closed the channel, and a second Response
\* for the same tunnel has been turned away.
C29_Witness ==
    \E p, q \in ResponseProcs :
        /\ pc[p] = "gone" /\ pc[q] = "done" /\ ret[q] = ErrNoPending
        /\ \E c \in Tokens : responseCh[c].sends = 1 /\ responseCh[c].closes = 1

\* C30: a Response that returns success is delivered: a Tunnel call that waits
\* for its response returns timeout or client-disconnected only when no
\* Response has put, or is about to put, a value into its response channel.
C30_SuccessImpliesDelivery ==
    [][\A p \in TunnelProcs :
        (pc[p] = "await" /\ pc'[p] = "cleanup" /\ ret'[p] \in {ErrTimeout, ErrClientGone}) =>
            /\ ~responseCh[loc[p].responseCh].full
            /\ \A r \in ResponseProcs :
                  pc[r] = "send" => loc[r].responseCh # loc[p].responseCh]_vars

\* C31: the stop signal of Close is never lost: when a Close call that set
\* closed itself returns success, the supervisor of its tunnel has taken the
\* signal or is already tearing down; it is not left to wait for a timer that
\* has yet to fire.
C31_StopSignalDelivered ==
    [][\A p \in CloseProcs :
        (pc[p] = "signal" /\ pc'[p] = "done" /\ ret'[p] = Ok) =>
            LET t == loc[p].tunnel IN
            \/ supervisor'[t] \notin {"spawned", "select"}
            \/ inactivityTimer'[t] = 0
            \/ maxLifetimeTimer'[t] = 0]_vars

====
